---- MODULE Spec2Model ----
(***************************************************************************)
(* Model of the blue-dashboard API client (frontend/services/api_client.py) *)
(* and of the connection pool it configures: a requests.Session whose       *)
(* HTTPAdapter carries Retry(total=retries, status_forcelist=[...],         *)
(* backoff_factor=1).  The backend and the network are the environment:     *)
(* every request on the wire is answered by an HTTP response or fails at    *)
(* transport level.                                                         *)
(***************************************************************************)
EXTENDS Integers, Sequences, FiniteSets, TLC

(* ------------------------------ bounds --------------------------------- *)

\* largest retry count a client is constructed with
MaxRetries == 2

\* longest base URL handed to the constructor
MaxUrlLen == 2

\* longest text handed to process_text
MaxTextLen == 2

\* most entries the session history is let grow to
MaxHistory == 2

\* last second of the wall clock
MaxTime == 2

(* ------------------------- program constants --------------------------- *)

\* default of the constructor's timeout parameter
DefaultTimeout == 30

\* default of the constructor's retries parameter
DefaultRetries == 3

\* status_forcelist of the retry strategy
StatusForcelist == {429, 500, 502, 503, 504}

\* backoff_factor of the retry strategy
BackoffFactor == 1

\* urllib3 Retry.DEFAULT_BACKOFF_MAX (backoff_max is not set by the client)
BackoffMax == 120

\* urllib3 Retry.DEFAULT_ALLOWED_METHODS (allowed_methods is not set by the client)
AllowedMethods == {"HEAD", "GET", "PUT", "DELETE", "OPTIONS", "TRACE"}

\* urllib3 Retry.RETRY_AFTER_STATUS_CODES (respect_retry_after_header defaults to True)
RetryAfterStatusCodes == {413, 429, 503}

(* ------------------------------ strings -------------------------------- *)

\* characters base URLs are built from
UrlChars == {"a", "/"}

\* characters texts are built from; " " and "\t" are whitespace
TextChars == {" ", "\t", "a"}

Whitespace == {" ", "\t"}

SeqsUpTo(S, n) == UNION {[1..m -> S] : m \in 0..n}

\* str.rstrip(chars): drop the longest suffix made of chars
RECURSIVE rstrip(_, _)
rstrip(s, chars) ==
  IF s # <<>> /\ s[Len(s)] \in chars
    THEN rstrip(SubSeq(s, 1, Len(s) - 1), chars)
    ELSE s

\* str.lstrip(chars): drop the longest prefix made of chars
RECURSIVE lstrip(_, _)
lstrip(s, chars) ==
  IF s # <<>> /\ s[1] \in chars
    THEN lstrip(Tail(s), chars)
    ELSE s

\* str.strip() with no argument strips whitespace on both ends
strip(s) == lstrip(rstrip(s, Whitespace), Whitespace)

(* ------------------------- response bodies, JSON ----------------------- *)

\* A body is the sequence of lexical tokens on the wire.
Punct(c) == [t |-> "punct", v |-> c]
Str(s) == [t |-> "str", v |-> s]
Lit(s) == [t |-> "lit", v |-> s]
Raw(s) == [t |-> "raw", v |-> s]

\* a parsed JSON value; items of an array and fields of an object are
\* sequences (a Python dict keeps insertion order)
JsonValue(kind, s, items, fields) ==
  [k |-> kind, s |-> s, items |-> items, fields |-> fields]

NotJSON == JsonValue("invalid", "", <<>>, <<>>)
EmptyDict == JsonValue("object", "", <<>>, <<>>)
EmptyList == JsonValue("array", "", <<>>, <<>>)

\* scalars and the empty containers
ParseFlat(toks) ==
  IF Len(toks) = 1 /\ toks[1].t = "str" THEN JsonValue("str", toks[1].v, <<>>, <<>>)
  ELSE IF Len(toks) = 1 /\ toks[1].t = "lit" /\ toks[1].v = "null"
    THEN JsonValue("null", "", <<>>, <<>>)
  ELSE IF toks = <<Punct("["), Punct("]")>> THEN EmptyList
  ELSE IF toks = <<Punct("{"), Punct("}")>> THEN EmptyDict
  ELSE NotJSON

\* the pieces of toks between commas
RECURSIVE SplitCommas(_, _)
SplitCommas(toks, cur) ==
  IF toks = <<>> THEN <<cur>>
  ELSE IF Head(toks) = Punct(",") THEN <<cur>> \o SplitCommas(Tail(toks), <<>>)
  ELSE SplitCommas(Tail(toks), Append(cur, Head(toks)))

IsMember(piece) ==
  /\ Len(piece) >= 3
  /\ piece[1].t = "str"
  /\ piece[2] = Punct(":")
  /\ ParseFlat(SubSeq(piece, 3, Len(piece))) # NotJSON

\* dict[key] = val: a repeated key keeps its place and takes the last value
DictSet(fields, key, val) ==
  IF \E i \in 1..Len(fields) : fields[i].key = key
    THEN [i \in 1..Len(fields) |->
            IF fields[i].key = key THEN [key |-> key, val |-> val] ELSE fields[i]]
    ELSE Append(fields, [key |-> key, val |-> val])

RECURSIVE BuildDict(_, _)
BuildDict(pieces, fields) ==
  IF pieces = <<>> THEN fields
  ELSE BuildDict(Tail(pieces),
         DictSet(fields, Head(pieces)[1].v,
                 ParseFlat(SubSeq(Head(pieces), 3, Len(Head(pieces))))))

\* response.json(): the parsed body, or NotJSON where json() raises
ParseJSON(toks) ==
  IF ParseFlat(toks) # NotJSON THEN ParseFlat(toks)
  ELSE IF Len(toks) >= 3 /\ toks[1] = Punct("[") /\ toks[Len(toks)] = Punct("]")
    THEN LET pieces == SplitCommas(SubSeq(toks, 2, Len(toks) - 1), <<>>)
         IN IF \A i \in 1..Len(pieces) : ParseFlat(pieces[i]) # NotJSON
              THEN JsonValue("array", "",
                     [i \in 1..Len(pieces) |-> ParseFlat(pieces[i])], <<>>)
              ELSE NotJSON
  ELSE IF Len(toks) >= 3 /\ toks[1] = Punct("{") /\ toks[Len(toks)] = Punct("}")
    THEN LET pieces == SplitCommas(SubSeq(toks, 2, Len(toks) - 1), <<>>)
         IN IF \A i \in 1..Len(pieces) : IsMember(pieces[i])
              THEN JsonValue("object", "", <<>>, BuildDict(pieces, <<>>))
              ELSE NotJSON
  ELSE NotJSON

\* response.text: the body as text
RenderToken(tok) == IF tok.t = "str" THEN "\"" \o tok.v \o "\"" ELSE tok.v

RECURSIVE Text(_)
Text(toks) == IF toks = <<>> THEN "" ELSE RenderToken(Head(toks)) \o Text(Tail(toks))

\* str(value) as an f-string formats a value taken out of a parsed body
PyStr(val) ==
  CASE val.k = "str" -> val.s
    [] val.k = "null" -> "None"
    [] val.k = "array" -> "[]"
    [] val.k = "object" -> "{}"
    [] OTHER -> ""

HasKey(val, key) == \E i \in 1..Len(val.fields) : val.fields[i].key = key

DictGet(val, key) ==
  LET i == CHOOSE j \in 1..Len(val.fields) : val.fields[j].key = key
  IN val.fields[i].val

(* --------------------------- the environment --------------------------- *)

BodyEmpty == <<>>
BodyHtml == <<Raw("<html>")>>
BodyError == <<Punct("{"), Str("error"), Punct(":"), Str("not found"), Punct("}")>>
BodyList == <<Punct("["), Punct("]")>>
BodyTasks ==
  <<Punct("{"), Str("document"), Punct(":"), Punct("{"), Punct("}"), Punct(","),
    Str("tasks"), Punct(":"), Punct("["), Punct("]"), Punct("}")>>

\* bodies the backend answers with
Bodies == {BodyEmpty, BodyHtml, BodyError, BodyList, BodyTasks}

\* statuses the backend answers with
Statuses == {200, 204, 304, 404, 413, 429, 501, 503}

\* responses; retry_after is the Retry-After header in seconds, 0 when absent
Responses ==
  [status : Statuses, body : Bodies, retry_after : {0}]
    \cup [status : {413, 503}, body : {BodyEmpty}, retry_after : {1}]

NoResponse == [status |-> 0, body |-> <<>>, retry_after |-> 0]

\* transport-level failures: no HTTP response is received
\*   connect          DNS failure or connection refused
\*   tls              TLS handshake or certificate error
\*   connect_timeout  the timeout expires while connecting
\*   read_timeout     the timeout expires while waiting for the response
TransportErrors == {"connect", "tls", "connect_timeout", "read_timeout"}

(* ------------------------------ exceptions ----------------------------- *)

NoValue == JsonValue("none", "", <<>>, <<>>)

NoOutcome ==
  [kind |-> "none", value |-> NoValue, exc |-> "", prefix |-> "", status |-> 0,
   detail |-> ""]

Return(val) == [NoOutcome EXCEPT !.kind = "return", !.value = val]

Raise(exc, prefix, status, detail) ==
  [NoOutcome EXCEPT !.kind = "raise", !.exc = exc, !.prefix = prefix,
                    !.status = status, !.detail = detail]

\* the three exception classes the module defines
ApiErrors == {"ApiConnectionError", "ApiValidationError", "ApiServerError"}

(* ------------------------------ the client ----------------------------- *)

VARIABLES
  API_BASE_URL, \* the base URL the environment configures (app.py)
  client,    \* the ApiClient: construction state, base_url, timeout, retries
  pc,        \* "idle", "wire" (a request is on the wire) or "done"
  op,        \* the operation in progress
  text,      \* the text argument of process_text
  sent,      \* HTTP requests put on the wire by the call in progress
  history,   \* Retry.history: the failed attempts the retry strategy counted
  slept,     \* seconds slept before each retry of the call in progress
  response,  \* the response session.get / session.post returned
  outcome    \* what the operation returned or raised

\* the dashboard (app.py): one Streamlit session
VARIABLES
  session_state, \* st.session_state: results, error, processing, history, current_time
  script,        \* where the script run is: "new", "idle" or "processing", and its call
  results_tab,   \* what the Results tab showed in the latest script run
  now            \* the wall clock, in ticks

client_vars == <<API_BASE_URL, client, pc, op, text, sent, history, slept, response, outcome>>

app_vars == <<session_state, script, results_tab, now>>

vars == <<client_vars, app_vars>>

NoClient == [state |-> "none", base_url |-> <<>>, timeout |-> 0, retries |-> 0]

Operations == {"health_check", "upload_file", "process_text"}

\* session.get for the health check, session.post for the other two
Method(o) == IF o = "health_check" THEN "GET" ELSE "POST"

\* f"{self.base_url}/health" and its siblings
Path(o) ==
  CASE o = "health_check" -> "/health"
    [] o = "upload_file" -> "/upload"
    [] o = "process_text" -> "/process-text"

Url(o) == Append(client.base_url, Path(o))

\* timeouts a client is constructed with
Timeouts == {1, DefaultTimeout}

(* ApiClient.__init__ *)
NewClient(base_url, timeout, retries) ==
  IF base_url = <<>>
    THEN [NoClient EXCEPT !.state = "failed"]
    ELSE [state |-> "ready", base_url |-> rstrip(base_url, {"/"}),
          timeout |-> timeout, retries |-> retries]

(* ApiClient._handle_response: the outcomes handling a response can have.   *)
(* response.json() on a body that is not JSON raises a JSONDecodeError that *)
(* is a RequestException from requests 2.27 on and a plain ValueError       *)
(* before; no version is pinned, so both are outcomes.                      *)
ErrorMessage(resp) ==
  LET error_data == ParseJSON(resp.body)
  IN IF error_data = NotJSON THEN Text(resp.body)
     ELSE IF HasKey(error_data, "error") THEN PyStr(DictGet(error_data, "error"))
     ELSE Text(resp.body)

\* _handle_response with `return {}` in place of the two returns
handle_response_empty(resp) ==
  IF 400 <= resp.status /\ resp.status < 600
    THEN {Raise("ApiServerError", "API Server Error", resp.status, Text(resp.body))}
    ELSE {Return(EmptyDict)}

handle_response(resp) ==
  IF 400 <= resp.status /\ resp.status < 600
    THEN \* raise_for_status() raised HTTPError
      IF ParseJSON(resp.body) # NotJSON /\ ParseJSON(resp.body).k # "object"
        THEN {Raise("AttributeError", "", resp.status, "get")}
      ELSE IF resp.status < 500
        THEN {Raise("ApiValidationError", "API Validation Error", resp.status,
                    ErrorMessage(resp))}
      ELSE IF resp.status < 600
        THEN {Raise("ApiServerError", "API Server Error", resp.status,
                    ErrorMessage(resp))}
      ELSE {Raise("ApiConnectionError", "Unexpected HTTP Error", resp.status,
                  ErrorMessage(resp))}
    ELSE IF resp.status = 204 THEN {Return(EmptyDict)}
    ELSE IF ParseJSON(resp.body) # NotJSON THEN {Return(ParseJSON(resp.body))}
    ELSE {Raise("ApiConnectionError", "Failed to connect to the API", 0,
                "JSONDecodeError"),
          Raise("JSONDecodeError", "", 0, "")}

(* ----------------------- the retry strategy ---------------------------- *)
(* Retry(total=retries, status_forcelist=[429, 500, 502, 503, 504],         *)
(* backoff_factor=1): every other parameter keeps the library's default,    *)
(* so allowed_methods excludes POST, raise_on_status is True and the        *)
(* Retry-After header is respected.                                         *)

StatusEntry(status) == [status |-> status, error |-> ""]
ErrorEntry(err) == [status |-> 0, error |-> err]

\* Retry.total of the current Retry object
Total == client.retries - Len(history)

\* Retry.is_retry
is_retry(method, status, has_retry_after) ==
  /\ method \in AllowedMethods
  /\ \/ status \in StatusForcelist
     \/ Total # 0 /\ has_retry_after /\ status \in RetryAfterStatusCodes

\* a read error is retried only for an allowed method; connection and other
\* errors are retried for every method (Retry.increment)
IsReadError(err) == err = "read_timeout"

RECURSIVE Pow2(_)
Pow2(n) == IF n = 0 THEN 1 ELSE 2 * Pow2(n - 1)

Min(a, b) == IF a <= b THEN a ELSE b

\* Retry.get_backoff_time, on the history that includes the latest failure
get_backoff_time(h) ==
  IF Len(h) <= 1 THEN 0 ELSE Min(BackoffMax, BackoffFactor * Pow2(Len(h) - 1))

\* Retry.sleep: the Retry-After header when the response has one, else backoff
sleep(h, resp) ==
  IF resp.retry_after > 0 THEN resp.retry_after ELSE get_backoff_time(h)

\* the exception HTTPAdapter.send raises for an exhausted retry strategy
MaxRetryError(entry) ==
  CASE entry.error = "" -> "requests.RetryError"
    [] entry.error = "connect_timeout" -> "requests.ConnectTimeout"
    [] entry.error = "tls" -> "requests.SSLError"
    [] OTHER -> "requests.ConnectionError"

\* `except ApiConnectionError as e: ... raise e` around the call: an
\* ApiConnectionError is logged and raised again, anything else propagates
except_ApiConnectionError(o) == o

(* ----------------------------- the dashboard --------------------------- *)

\* a session_state value that is None or a string
PyNoneStr == [none |-> TRUE, msg |-> ""]
PyString(msg) == [none |-> FALSE, msg |-> msg]

\* current_time: the key is absent, or holds '' or a formatted time
TimeAbsent == [k |-> "absent", sec |-> 0]
TimeEmpty == [k |-> "empty", sec |-> 0]
TimeNA == [k |-> "N/A", sec |-> 0]

\* datetime.now().strftime("%Y-%m-%d %H:%M:%S")
strftime(t) == [k |-> "time", sec |-> t]

\* st.session_state.get('current_time', default)
GetCurrentTime(ss, default) ==
  IF ss.current_time = TimeAbsent THEN default ELSE ss.current_time

\* session state as lines 43-50 leave it on the first script run
NewSessionState ==
  [results |-> NoValue, error |-> PyNoneStr, processing |-> FALSE,
   history |-> <<>>, current_time |-> TimeAbsent, active_tab |-> ""]

NoCall == [source_type |-> "", data_name |-> "", text |-> <<>>, name |-> "", at |-> 0]

NewScript == [pc |-> "new", call |-> NoCall]

NotRendered == [view |-> "none", error |-> "", results |-> NoValue]

\* truth value of a parsed JSON value or None
Truthy(val) ==
  CASE val.k = "object" -> val.fields # <<>>
    [] val.k = "array" -> val.items # <<>>
    [] val.k = "str" -> val.s # ""
    [] OTHER -> FALSE

\* d.get(key, default) on a dict
Get(val, key, default) == IF HasKey(val, key) THEN DictGet(val, key) ELSE default

\* the Results tab (lines 125-134); view "exception" when rendering raises,
\* which ends the script run
ResultsTab(ss) ==
  IF ~ss.error.none /\ ss.error.msg # ""
    THEN [view |-> "error", error |-> ss.error.msg, results |-> NoValue]
  ELSE IF Truthy(ss.results)
    THEN IF ss.results.k = "object" /\ Get(ss.results, "document", EmptyDict).k = "object"
           THEN [view |-> "tasks", error |-> "", results |-> ss.results]
           ELSE [view |-> "exception", error |-> "", results |-> NoValue]
  ELSE [view |-> "info", error |-> "", results |-> NoValue]

\* line 165, at the end of a script run
UpdateCurrentTime(ss, t) ==
  [ss EXCEPT !.current_time =
     IF GetCurrentTime(ss, TimeEmpty).k = "time"
       THEN GetCurrentTime(ss, TimeEmpty) ELSE strftime(t)]

\* str(e)
ExcStr(o) ==
  CASE o.exc = "ValueError" -> o.prefix
    [] o.exc \in ApiErrors /\ o.status # 0 ->
         o.prefix \o " (" \o ToString(o.status) \o "): " \o o.detail
    [] o.exc \in ApiErrors -> o.prefix \o ": " \o o.detail
    [] OTHER -> o.exc \o ": " \o o.detail

\* len(x) of a parsed JSON value; -1 where len raises TypeError
PyLen(val) ==
  CASE val.k = "object" -> Len(val.fields)
    [] val.k = "array" -> Len(val.items)
    [] val.k = "str" -> Len(val.s)
    [] OTHER -> -1

\* the answers the backend gives the dashboard
AppResponses ==
  {r \in Responses : /\ r.status \in {200, 204, 404, 503}
                     /\ r.body \in {BodyHtml, BodyError, BodyList, BodyTasks}
                     /\ r.retry_after = 0}

\* what a whole call of an operation can return or raise (a ready client
\* whose base URL has a scheme): a POST is never retried on a status, a GET
\* never gets a forcelist status delivered
CallOutcomes(o, t, resps) ==
  IF o = "process_text" /\ (t = <<>> \/ strip(t) = <<>>)
    THEN {Raise("ValueError", "Text content cannot be empty.", 0, "")}
    ELSE UNION {handle_response(r) :
                  r \in {x \in resps : ~(/\ Method(o) \in AllowedMethods
                                         /\ x.status \in StatusForcelist)}}
         \cup {Raise(MaxRetryError(ErrorEntry(e)), "", 0, e) :
                 e \in {x \in TransportErrors :
                          IsReadError(x) => Method(o) \in AllowedMethods}}
         \cup (IF Method(o) \in AllowedMethods
                 THEN {Raise(MaxRetryError(StatusEntry(503)), "", 0,
                             "too many error responses")}
                 ELSE {Raise("requests.ReadTimeout", "", 0, "read_timeout")})

(* ------------------------------ actions -------------------------------- *)

Init ==
  /\ API_BASE_URL \in SeqsUpTo(UrlChars, MaxUrlLen)
  /\ client = NoClient
  /\ pc = "idle"
  /\ op = ""
  /\ text = <<>>
  /\ sent = 0
  /\ history = <<>>
  /\ slept = <<>>
  /\ response = NoResponse
  /\ outcome = NoOutcome
  /\ session_state = NewSessionState
  /\ script = NewScript
  /\ results_tab = NotRendered
  /\ now = 0

\* api_client = ApiClient(base_url=..., timeout=..., retries=...)
Construct ==
  /\ client.state = "none"
  /\ \E timeout \in Timeouts, retries \in 0..MaxRetries :
       client' = NewClient(API_BASE_URL, timeout, retries)
  /\ UNCHANGED <<API_BASE_URL, pc, op, text, sent, history, slept, response, outcome>>
  /\ UNCHANGED app_vars

\* session.get / session.post: a URL without a scheme ("a" stands for text
\* such as http://host) is rejected with MissingSchema before anything is
\* sent, otherwise the first request goes on the wire
HasScheme(base_url) == base_url # <<>> /\ base_url[1] # "/"

Request(o) ==
  /\ op' = o
  /\ history' = <<>>
  /\ slept' = <<>>
  /\ response' = NoResponse
  /\ IF HasScheme(client.base_url)
       THEN /\ pc' = "wire"
            /\ sent' = 1
            /\ outcome' = NoOutcome
       ELSE /\ pc' = "done"
            /\ sent' = 0
            /\ outcome' = except_ApiConnectionError(
                            Raise("requests.MissingSchema", "", 0, ""))
  /\ UNCHANGED <<API_BASE_URL, client>>

Ready == client.state = "ready" /\ pc = "idle"

health_check == Ready /\ text' = <<>> /\ Request("health_check") /\ UNCHANGED app_vars

upload_file == Ready /\ text' = <<>> /\ Request("upload_file") /\ UNCHANGED app_vars

process_text ==
  /\ Ready
  /\ \E t \in SeqsUpTo(TextChars, MaxTextLen) :
       /\ text' = t
       /\ IF t = <<>> \/ strip(t) = <<>>
         THEN /\ pc' = "done"
              /\ op' = "process_text"
              /\ sent' = 0
              /\ history' = <<>>
              /\ slept' = <<>>
              /\ response' = NoResponse
              /\ outcome' = Raise("ValueError", "Text content cannot be empty.", 0, "")
              /\ UNCHANGED <<API_BASE_URL, client>>
         ELSE Request("process_text")
  /\ UNCHANGED app_vars

\* the backend answers with a status the strategy retries: sleep, send again
ResponseRetried ==
  /\ pc = "wire"
  /\ \E resp \in Responses :
       /\ is_retry(Method(op), resp.status, resp.retry_after > 0)
       /\ Total - 1 >= 0
       /\ history' = Append(history, StatusEntry(resp.status))
       /\ slept' = Append(slept, sleep(history', resp))
       /\ sent' = sent + 1
  /\ UNCHANGED <<API_BASE_URL, client, pc, op, text, response, outcome>>
  /\ UNCHANGED app_vars

\* the backend answers with a status the strategy retries and no retry is
\* left: raise_on_status makes urlopen raise MaxRetryError
RetriesExhausted ==
  /\ pc = "wire"
  /\ \E resp \in Responses :
       /\ is_retry(Method(op), resp.status, resp.retry_after > 0)
       /\ Total - 1 < 0
       /\ history' = Append(history, StatusEntry(resp.status))
       /\ outcome' = except_ApiConnectionError(
                       Raise(MaxRetryError(StatusEntry(resp.status)), "",
                             0, "too many error responses"))
  /\ pc' = "done"
  /\ UNCHANGED <<API_BASE_URL, client, op, text, sent, slept, response>>
  /\ UNCHANGED app_vars

\* any other answer is returned by the session and handled
ResponseReturned ==
  /\ pc = "wire"
  /\ \E resp \in Responses :
       /\ ~is_retry(Method(op), resp.status, resp.retry_after > 0)
       /\ response' = resp
       /\ \E o \in handle_response(resp) :
            outcome' = except_ApiConnectionError(o)
  /\ pc' = "done"
  /\ UNCHANGED <<API_BASE_URL, client, op, text, sent, history, slept>>
  /\ UNCHANGED app_vars

\* a transport failure the strategy retries: back off, send again
TransportRetried ==
  /\ pc = "wire"
  /\ \E err \in TransportErrors :
       /\ IsReadError(err) => Method(op) \in AllowedMethods
       /\ Total - 1 >= 0
       /\ history' = Append(history, ErrorEntry(err))
       /\ slept' = Append(slept, get_backoff_time(history'))
       /\ sent' = sent + 1
  /\ UNCHANGED <<API_BASE_URL, client, pc, op, text, response, outcome>>
  /\ UNCHANGED app_vars

\* a transport failure that is not retried or finds no retry left: the
\* session raises the requests exception for it
TransportRaised ==
  /\ pc = "wire"
  /\ \E err \in TransportErrors :
       IF IsReadError(err) /\ Method(op) \notin AllowedMethods
         THEN /\ history' = history
              /\ outcome' = except_ApiConnectionError(
                              Raise("requests.ReadTimeout", "", 0, err))
         ELSE /\ Total - 1 < 0
              /\ history' = Append(history, ErrorEntry(err))
              /\ outcome' = except_ApiConnectionError(
                              Raise(MaxRetryError(ErrorEntry(err)), "", 0, err))
  /\ pc' = "done"
  /\ UNCHANGED <<API_BASE_URL, client, op, text, sent, slept, response>>
  /\ UNCHANGED app_vars

\* the caller has the result; the client is ready for the next call
Finish ==
  /\ pc = "done"
  /\ pc' = "idle"
  /\ op' = ""
  /\ text' = <<>>
  /\ sent' = 0
  /\ history' = <<>>
  /\ slept' = <<>>
  /\ response' = NoResponse
  /\ outcome' = NoOutcome
  /\ UNCHANGED <<API_BASE_URL, client>>
  /\ UNCHANGED app_vars

Next ==
  \/ Construct
  \/ health_check
  \/ upload_file
  \/ process_text
  \/ ResponseRetried
  \/ RetriesExhausted
  \/ ResponseReturned
  \/ TransportRetried
  \/ TransportRaised
  \/ Finish

Spec == Init /\ [][Next]_vars

\* every result of a call in the client's specification is one the summary has
CallOutcomesCoverCalls ==
  (pc = "done" /\ HasScheme(client.base_url))
    => outcome \in CallOutcomes(op, text, Responses)

(* ------------------------- the dashboard's actions --------------------- *)

\* process_data up to the call of the client (lines 55-57)
process_data_begin(ss) ==
  [ss EXCEPT !.processing = TRUE, !.results = NoValue, !.error = PyNoneStr]

\* the new history entry (lines 69-74) for a result that is a dict
HistoryEntry(ss, call, result) ==
  [timestamp |-> GetCurrentTime(ss, TimeNA),
   document_name |-> IF call.name # "" THEN call.name ELSE call.data_name,
   tasks_count |-> PyLen(Get(result, "tasks", EmptyList)),
   results |-> result]

Unexpected(msg) == PyString("Um erro inesperado ocorreu: " \o msg)

\* process_data from the return of the client's call on (lines 68-84)
process_data_end(ss, call, o) ==
  LET after ==
        IF o.kind = "return"
          THEN LET stored == [ss EXCEPT !.results = o.value]
               IN IF o.value.k # "object"
                    THEN [stored EXCEPT !.error =
                            Unexpected("object has no attribute 'get'")]
                  ELSE IF PyLen(Get(o.value, "tasks", EmptyList)) < 0
                    THEN [stored EXCEPT !.error =
                            Unexpected("object has no len()")]
                  ELSE [stored EXCEPT !.history =
                          Append(ss.history, HistoryEntry(ss, call, o.value))]
        ELSE IF o.exc \in ApiErrors
          THEN [ss EXCEPT !.error = PyString(ExcStr(o))]
        ELSE [ss EXCEPT !.error = Unexpected(ExcStr(o))]
  IN [after EXCEPT !.processing = FALSE]

\* the script from the Results tab to its last line; an exception raised
\* while rendering ends the run before line 165
EndOfRun(ss) ==
  /\ results_tab' = ResultsTab(ss)
  /\ session_state' = IF ResultsTab(ss).view = "exception"
                        THEN ss ELSE UpdateCurrentTime(ss, now)

\* the run ends with an uncaught exception in the sidebar, before any tab
\* is rendered
Aborted(ss) ==
  /\ results_tab' = NotRendered
  /\ session_state' = ss

Idle == [pc |-> "idle", call |-> NoCall]

AppInit ==
  /\ API_BASE_URL = <<"a">>
  /\ client = NewClient(API_BASE_URL, DefaultTimeout, DefaultRetries)
  /\ pc = "idle"
  /\ op = ""
  /\ text = <<>>
  /\ sent = 0
  /\ history = <<>>
  /\ slept = <<>>
  /\ response = NoResponse
  /\ outcome = NoOutcome
  /\ session_state = NewSessionState
  /\ script = NewScript
  /\ results_tab = NotRendered
  /\ now = 0

\* a script run with no button pressed: the first run, or a rerun
ScriptRun ==
  /\ script.pc \in {"new", "idle"}
  /\ EndOfRun(session_state)
  /\ script' = Idle
  /\ UNCHANGED <<now, client_vars>>

\* "Verificar Status da API" (lines 98-103): only ApiConnectionError is caught
ClickHealthCheck ==
  /\ script.pc = "idle"
  /\ \E o \in CallOutcomes("health_check", <<>>, AppResponses) :
       IF \/ o.kind = "return" /\ o.value.k = "object"
          \/ o.kind = "raise" /\ o.exc = "ApiConnectionError"
         THEN EndOfRun(session_state)
         ELSE Aborted(session_state)
  /\ UNCHANGED <<script, now, client_vars>>

\* "Processar" (lines 115-122) up to the call of the client; the button
\* exists when the last run rendered the Upload tab
ClickProcessar ==
  /\ script.pc = "idle"
  /\ results_tab # NotRendered
  /\ ~session_state.processing
  /\ Len(session_state.history) < MaxHistory
  /\ \E uploaded_file \in {"", "a.txt"}, text_input \in SeqsUpTo(TextChars, MaxTextLen),
        doc_name_input \in {"", "doc"} :
       LET ss == [session_state EXCEPT
                    !.current_time = GetCurrentTime(session_state, TimeEmpty)]
       IN IF uploaded_file # ""
            THEN /\ session_state' = process_data_begin(ss)
                 /\ script' = [pc |-> "processing",
                               call |-> [source_type |-> "file",
                                         data_name |-> uploaded_file,
                                         text |-> <<>>, name |-> "", at |-> now]]
                 /\ UNCHANGED results_tab
          ELSE IF text_input # <<>>
            THEN /\ session_state' = process_data_begin(ss)
                 /\ script' = [pc |-> "processing",
                               call |-> [source_type |-> "text", data_name |-> "",
                                         text |-> text_input,
                                         name |-> IF doc_name_input # ""
                                                    THEN doc_name_input
                                                    ELSE "texto_direto",
                                         at |-> now]]
                 /\ UNCHANGED results_tab
          ELSE /\ EndOfRun(ss)
               /\ UNCHANGED script
  /\ UNCHANGED <<now, client_vars>>

\* the client's call returns or raises; process_data and the run finish
ProcessDataReturns ==
  /\ script.pc = "processing"
  /\ \E o \in CallOutcomes(IF script.call.source_type = "file"
                             THEN "upload_file" ELSE "process_text",
                           script.call.text, AppResponses) :
       EndOfRun(process_data_end(session_state, script.call, o))
  /\ script' = Idle
  /\ UNCHANGED <<now, client_vars>>

\* "Ver Detalhes" on entry i of the reversed history (lines 140-148), and
\* the rerun it asks for; the button exists when the last run rendered the
\* History tab
ClickVerDetalhes(i) ==
  /\ script.pc = "idle"
  /\ results_tab.view \in {"error", "tasks", "info"}
  /\ i \in 0..(Len(session_state.history) - 1)
  /\ LET entry == session_state.history[Len(session_state.history) - i]
     IN EndOfRun([session_state EXCEPT !.results = entry.results,
                                       !.active_tab = "Resultados"])
  /\ UNCHANGED <<script, now, client_vars>>

\* time passes
Tick ==
  /\ now < MaxTime
  /\ now' = now + 1
  /\ UNCHANGED <<session_state, script, results_tab, client_vars>>

AppNext ==
  \/ ScriptRun
  \/ ClickHealthCheck
  \/ ClickProcessar
  \/ ProcessDataReturns
  \/ \E i \in 0..(MaxHistory - 1) : ClickVerDetalhes(i)
  \/ Tick

SpecApp == AppInit /\ [][AppNext]_vars


(* ------------------------------- claims -------------------------------- *)

Is2xx(status) == 200 <= status /\ status < 300
Is4xx(status) == 400 <= status /\ status < 500
Is5xx(status) == 500 <= status /\ status < 600

Last(s) == s[Len(s)]

\* every attempt the retry strategy counted was an answer with a transient status
AllTransient(h) == \A i \in 1..Len(h) : h[i].status \in StatusForcelist

\* C1: a call that ends in a transport-level failure (no HTTP response: DNS
\* failure, connection refused, TLS error, timeout) fails with
\* ApiConnectionError and with no other exception type.
C1_TransportFailureRaisesApiConnectionError ==
  (pc = "done" /\ outcome.kind = "raise" /\ outcome.detail \in TransportErrors)
    => outcome.exc = "ApiConnectionError"

\* C2: when the backend answers with a transient status until the retry
\* count is exhausted, the caller receives the error of normal response
\* handling for the final status: ApiServerError for a 5xx, ApiValidationError
\* for 429, carrying that status.
C2_ExhaustionSurfacesStatusError ==
  (/\ pc = "done"
   /\ Len(history) = client.retries + 1
   /\ AllTransient(history))
    => /\ outcome.kind = "raise"
       /\ outcome.status = Last(history).status
       /\ outcome.exc = IF Is5xx(Last(history).status)
                          THEN "ApiServerError" ELSE "ApiValidationError"

\* the transient answers the call in progress has received
TransientAnswers ==
  Len(history) + (IF response.status \in StatusForcelist THEN 1 ELSE 0)

\* C3: for every operation, POST included: while the backend has answered
\* with transient statuses only, at most `retries` of them, the call does
\* not end; when a 200 JSON body follows k <= retries such answers the call
\* returns that body after k retries.
C3_TransientThenSuccessReturnsBody ==
  (pc = "done" /\ AllTransient(history) /\ TransientAnswers <= client.retries)
    => /\ response.status \notin StatusForcelist
       /\ (response.status = 200 /\ ParseJSON(response.body) # NotJSON)
            => /\ outcome = Return(ParseJSON(response.body))
               /\ sent = Len(history) + 1

\* C4: process_text on an empty or whitespace-only text fails with
\* ApiValidationError, the category of HTTP 4xx, and sends no request.
C4_BlankTextRaisesValidationError ==
  (pc = "done" /\ op = "process_text" /\ strip(text) = <<>>)
    => /\ outcome.kind = "raise"
       /\ outcome.exc = "ApiValidationError"
       /\ sent = 0

\* C5: every failure of health_check is surfaced as ApiConnectionError.
C5_HealthCheckFailsAsApiConnectionError ==
  (pc = "done" /\ op = "health_check" /\ outcome.kind = "raise")
    => outcome.exc = "ApiConnectionError"

\* C6: a response whose status is neither 2xx nor in [400,600) raises
\* ApiServerError; it is never returned as a result.
C6_UnexpectedStatusRaisesServerError ==
  (/\ pc = "done"
   /\ response # NoResponse
   /\ ~Is2xx(response.status)
   /\ ~(Is4xx(response.status) \/ Is5xx(response.status)))
    => /\ outcome.kind = "raise"
       /\ outcome.exc = "ApiServerError"

\* the message the error of a 4xx/5xx response is to carry: the `error`
\* field of a JSON object body, else the raw body text
ClaimedMessage(body) ==
  IF ParseJSON(body).k = "object" /\ HasKey(ParseJSON(body), "error")
    THEN PyStr(DictGet(ParseJSON(body), "error"))
    ELSE Text(body)

\* C7: a response with status in [400,500) raises ApiValidationError and one
\* in [500,600) raises ApiServerError, whatever the body, and the message is
\* the body's `error` field when the body is a JSON object that has it, else
\* the raw body text (also for a body that is not JSON or not an object).
C7_ErrorStatusRaisesWithMessage ==
  (pc = "done" /\ (Is4xx(response.status) \/ Is5xx(response.status)))
    => /\ outcome.kind = "raise"
       /\ outcome.exc = IF Is4xx(response.status)
                          THEN "ApiValidationError" ELSE "ApiServerError"
       /\ outcome.detail = ClaimedMessage(response.body)

\* C8: for a 2xx response, status 204 gives the empty result object, and any
\* other 2xx status whose body is JSON gives exactly the parsed body.
C8_SuccessReturnsBodyUnchanged ==
  (pc = "done" /\ Is2xx(response.status))
    => IF response.status = 204
         THEN outcome = Return(EmptyDict)
         ELSE ParseJSON(response.body) # NotJSON
                => outcome = Return(ParseJSON(response.body))

\* a 200 answer carrying a JSON object with two fields has been handled
C8_Witness ==
  /\ pc = "done"
  /\ response.status = 200
  /\ response.body = BodyTasks
  /\ outcome.kind = "return"
  /\ Len(outcome.value.fields) = 2

\* C9: within a call a retry follows only an answer with a status of the
\* forcelist, at most retries + 1 requests are sent, and the delays before
\* the retries are 1s, 2s, 4s, ...: they start at 1 second and double.
C9_RetryPolicy ==
  /\ \A i \in 1..Len(slept) : history[i].status \in StatusForcelist
  /\ sent <= client.retries + 1
  /\ \A i \in 1..Len(slept) : slept[i] = Pow2(i - 1)

\* C10: constructing with an empty base URL fails; a constructed client has
\* a base URL that is non-empty and has no trailing slash, and no call
\* changes its base URL, timeout or retry count.
C10_ClientConfig ==
  [][/\ (client.state = "none" /\ client'.state # "none")
          => (client'.state = "failed" <=> API_BASE_URL = <<>>)
     /\ client'.state = "ready"
          => (client'.base_url # <<>> /\ Last(client'.base_url) # "/")
     /\ client.state = "ready" => client' = client]_vars

(* ------------------------ claims on the dashboard ---------------------- *)

\* a step in which the call made by process_data ends and process_data finishes
ProcessDataStep == script.pc = "processing" /\ script'.pc = "idle"

\* C11: after every call of process_data, whatever the backend answered or
\* raised, processing is False and exactly one of results and error is set:
\* on success results holds the response, error is None and the history has
\* one new entry holding that response; on failure results is None, error is
\* set and the history is unchanged.
C11_ProcessDataLeavesResultsOrError ==
  [][ProcessDataStep =>
       /\ ~session_state'.processing
       /\ \/ /\ session_state'.results # NoValue
             /\ session_state'.error = PyNoneStr
             /\ Len(session_state'.history) = Len(session_state.history) + 1
             /\ SubSeq(session_state'.history, 1, Len(session_state.history))
                  = session_state.history
             /\ Last(session_state'.history).results = session_state'.results
          \/ /\ session_state'.results = NoValue
             /\ session_state'.error # PyNoneStr
             /\ session_state'.history = session_state.history]_vars

\* C12: a history entry's timestamp is the current time at which its
\* document was processed, so documents processed at different times get
\* different timestamps, and timestamps do not decrease in append order.
\* The document is processed between the clock reading at the click
\* (script.call.at) and the one at the end of process_data (now).
C12_TimestampIsProcessingTime ==
  [][/\ (ProcessDataStep /\ Len(session_state'.history) > Len(session_state.history))
          => /\ Last(session_state'.history).timestamp.k = "time"
             /\ script.call.at <= Last(session_state'.history).timestamp.sec
             /\ Last(session_state'.history).timestamp.sec <= now
     /\ \A i, j \in 1..Len(session_state'.history) :
          i < j => session_state'.history[i].timestamp.sec
                     <= session_state'.history[j].timestamp.sec]_vars

\* C13: after any processing attempts, "Ver Detalhes" on a history entry
\* makes the Results tab of the rerun show that entry's stored results, also
\* when an earlier failed processing left an error behind.
C13_VerDetalhesShowsEntry ==
  [][\A i \in 0..(MaxHistory - 1) :
       ClickVerDetalhes(i) =>
         /\ results_tab'.view = "tasks"
         /\ results_tab'.results
              = session_state.history[Len(session_state.history) - i].results]_vars

====
